---- MODULE Spec2Model ----
(***************************************************************************)
(* Document-Signature-App: the coordinate normalisation of the owner's     *)
(* viewer and the signer's page, and the PDF stamping edge function.       *)
(*                                                                         *)
(* Numbers.  JavaScript numbers are modelled as exact rationals            *)
(* [num, den] (den > 0, lowest terms); the two non-finite results of a     *)
(* division by zero are Infinity = 1/0 and NaN = 0/0.  Rounding of         *)
(* IEEE doubles and of the REAL columns is not modelled: equalities below  *)
(* are the exact ones the spec asks for "within floating-point tolerance". *)
(***************************************************************************)
EXTENDS Integers, Sequences, FiniteSets, TLC

NULL == "null"

\* ------------------------------------------------------------- bounds
\* fields (rows of the signatures table) of the one document
MaxFields == 3
\* pages of the source PDF
MaxPages == 2

\* ------------------------------------------------------------- numbers
Abs(n) == IF n < 0 THEN -n ELSE n

RECURSIVE GCD(_, _)
GCD(a, b) == IF b = 0 THEN a ELSE GCD(b, a % b)

\* the results of a division by zero: x / 0 for x > 0, and 0 / 0
Infinity == [num |-> 1, den |-> 0]
NaN      == [num |-> 0, den |-> 0]

\* the number n/d (n >= 0 when d = 0) in lowest terms
Rat(n, d) ==
  IF d = 0 THEN (IF n = 0 THEN NaN ELSE Infinity)
  ELSE LET g == GCD(Abs(n), d)
       IN  [num |-> n \div g, den |-> d \div g]

Whole(k) == [num |-> k, den |-> 1]

IsFinite(a) == a.den > 0

\* a * b (Infinity * 0 is NaN), a / b for a, b >= 0 (x / 0 is Infinity or NaN),
\* a - b and a + b on finite numbers
Mul(a, b) == Rat(a.num * b.num, a.den * b.den)
Div(a, b) == Rat(a.num * b.den, a.den * b.num)
Sub(a, b) == Rat(a.num * b.den - b.num * a.den, a.den * b.den)
Add(a, b) == Rat(a.num * b.den + b.num * a.den, a.den * b.den)

\* a <= b on finite numbers
Leq(a, b) == a.num * b.den <= b.num * a.den

\* ------------------------------------------------------------- the PDF
\* page list of the source PDF, pdfDoc.getPages(): index 0 .. MaxPages-1
PageIndexes == 0 .. (MaxPages - 1)

\* page.getWidth() / page.getHeight() in points: US Letter on even indexes,
\* A4 on odd ones
getWidth(i)  == IF i % 2 = 0 THEN 612 ELSE 595
getHeight(i) == IF i % 2 = 0 THEN 792 ELSE 842

\* ------------------------------------------------------------- the store
FieldIds == 1 .. MaxFields

\* the one document of the model (documents.id) and its file name
DocumentId == "doc"
FileName   == "contract.pdf"

\* signature_data values: no image, a PNG data URL as the capture dialog
\* produces it, and bytes that pdf-lib cannot decode
ImagePng     == "data:image/png"
ImageCorrupt == "corrupt"

\* no row with this id
NoRow == [status |-> "absent"]

\* a row of public.signatures (the columns the model reads)
\* `captured` is history, not a column: the content-relative pixel and the
\* content size of the drag that produced x_position / y_position
NoCapture == [x |-> 0, y |-> 0, width |-> 0, height |-> 0]

\* signer_email / signer_name values of the add-signer form
Ann == [email |-> "ann@example.com", name |-> "Ann"]
Bob == [email |-> "bob@example.com", name |-> "Bob"]

\* signed_at: 0 is NULL, otherwise the client's new Date() of the write
Row(status, data, x, y, page) ==
  [status |-> status, signature_data |-> data,
   x_position |-> x, y_position |-> y,
   width |-> 150, height |-> 50, page_number |-> page,
   signer_email |-> Ann.email, signer_name |-> Ann.name, signed_at |-> 0,
   captured |-> NoCapture]

VARIABLES
  signaturesTable,   \* public.signatures: FieldIds -> row, or NoRow
  signedDocuments,   \* storage bucket 'signed-documents': set of [name, bytes, by]
  now,               \* Date.now() of the edge function's host
  runs,              \* invocations of download-signed-document
  opened,            \* window.open calls: set of [caller, run, url]
  tab,               \* the mounted page: DocumentViewer or SigningPage state
  requests,          \* position updates sent to the store and not yet resumed
  documents,         \* public.documents: the status of the one document
  sessions,          \* signer sessions: SigningPage or SignDocument state
  shares             \* public.document_shares: signer_email -> share, or NoShare

storeVars == <<signaturesTable>>
stampVars == <<signedDocuments, now, runs, opened>>
viewVars  == <<tab, requests>>
signVars  == <<documents, sessions, shares>>
vars == <<signaturesTable, signedDocuments, now, runs, opened, tab, requests,
          documents, sessions, shares>>

\* ------------------------------------------------- the page surface
\* zoom in tenths: the zoom buttons step by 0.2 inside [0.5, 3], from 1
ZoomStep    == 2
MaxZoom     == 30
MinZoom     == 5
InitialZoom == 10
\* zoom steps explored above the initial zoom
ZoomSpan == 1
\* position updates in flight at once
MaxInFlight == 1

\* container.scrollWidth / scrollHeight: nothing laid out (a hidden or
\* detached container), and the content at two sizes
ContentSizes ==
  { [width |-> 0,   height |-> 0],
    [width |-> 200, height |-> 300],
    [width |-> 400, height |-> 600] }

\* container.scrollLeft / scrollTop
Scrolls == { [left |-> 0, top |-> 0], [left |-> 100, top |-> 150] }

\* e.clientX - containerRect.left, e.clientY - containerRect.top of a mouse
\* event: left of and above the container, inside it, right of and below it
Pointers ==
  { [x |-> -30, y |-> -30], [x |-> 120, y |-> 160], [x |-> 500, y |-> 700] }

\* e.clientX - rect.left, e.clientY - rect.top of the mouse down on a field
DragOffsets == { [x |-> 20, y |-> 10] }

\* useState({ width: 0, height: 0 }); `page` and `zoom` are history: the
\* currentPage and zoom the size was measured under
Unmeasured == [width |-> 0, height |-> 0, page |-> 0, zoom |-> 0]

NoSignatures == [id \in FieldIds |-> NoRow]

\* the state of the mounted component and of its container element
\* history of handleDeleteSignature: the field it was called for and the
\* status the store held for it at that time
NoDelete == [id |-> 0, status |-> "none"]

ClosedTab ==
  [view |-> "none", signatures |-> NoSignatures, currentPage |-> 1,
   zoom |-> InitialZoom, containerSize |-> Unmeasured, isPageRendered |-> FALSE,
   numPages |-> 0, rendered |-> FALSE,
   content |-> [width |-> 0, height |-> 0],
   isDragging |-> 0, dragOffset |-> [x |-> 0, y |-> 0],
   lastDelete |-> NoDelete]

Max(a, b) == IF a >= b THEN a ELSE b
Min(a, b) == IF a <= b THEN a ELSE b

\* setContainerSize({ width: container.scrollWidth, height: container.scrollHeight })
measure(t) ==
  [width |-> t.content.width, height |-> t.content.height,
   page |-> t.currentPage, zoom |-> t.zoom]

\* `value || 0`
orZero(a) == IF a = NaN THEN Whole(0) ELSE a

\* the left / top style of a field overlay in the owner's viewer
viewerOverlay(sig, containerSize) ==
  [x |-> Mul(orZero(sig.x_position), Whole(containerSize.width)),
   y |-> Mul(orZero(sig.y_position), Whole(containerSize.height))]

\* an overlay kept at the pixel it was captured at, whatever the container size
signerOverlay_capturedPixel(sig, containerSize) ==
  [x |-> Mul(orZero(sig.x_position), Whole(sig.captured.width)),
   y |-> Mul(orZero(sig.y_position), Whole(sig.captured.height))]

\* the left / top style of a field overlay on the signer's page
signerOverlay(sig, containerSize) ==
  [x |-> Mul(orZero(sig.x_position), Whole(containerSize.width)),
   y |-> Mul(orZero(sig.y_position), Whole(containerSize.height))]

\* whether the overlay of field id is in the rendered tree
overlayRendered(t, id) ==
  /\ t.signatures[id] # NoRow
  /\ t.signatures[id].page_number = t.currentPage
  /\ \/ t.view = "DocumentViewer" /\ t.containerSize.width > 0
     \/ t.view = "SigningPage" /\ t.isPageRendered

overlayPosition(t, id) ==
  IF t.view = "DocumentViewer"
  THEN viewerOverlay(t.signatures[id], t.containerSize)
  ELSE signerOverlay(t.signatures[id], t.containerSize)

\* SignatureField.handleMouseMove: the pixel position handed to onMove
dragPosition(pointer, dragOffset) ==
  [x |-> Max(0, pointer.x - dragOffset.x), y |-> Max(0, pointer.y - dragOffset.y)]

\* handleMoveSignature: the fractions computed from the pixel position, the
\* scroll offset and the content size
\* a normalisation of the viewport position, the scroll offset left out
normalizedPosition_noScroll(pos, scroll, content) ==
  [x |-> Div(Whole(pos.x), Whole(content.width)),
   y |-> Div(Whole(pos.y), Whole(content.height))]

normalizedPosition(pos, scroll, content) ==
  [x |-> Div(Whole(pos.x + scroll.left), Whole(content.width)),
   y |-> Div(Whole(pos.y + scroll.top), Whole(content.height))]

\* a dragged field whose overlay left the tree loses its listeners
settle(t) ==
  IF t.isDragging # 0 /\ ~overlayRendered(t, t.isDragging)
  THEN [t EXCEPT !.isDragging = 0]
  ELSE t

\* fields the owner places in the viewing specification
MaxViewFields == 1
ViewFieldIds == 1 .. Min(MaxViewFields, MaxFields)

\* mount of DocumentViewer: the mount effects and fetchSignatures
OpenDocumentViewer(c) ==
  /\ tab.view # "DocumentViewer"
  /\ LET t == [ClosedTab EXCEPT !.view = "DocumentViewer", !.content = c,
                                !.signatures = signaturesTable]
     IN  tab' = [t EXCEPT !.containerSize = measure(t)]
  /\ UNCHANGED <<storeVars, stampVars, signVars, requests>>

\* mount of SigningPage: fetchData
OpenSigningPage(c) ==
  /\ tab.view # "SigningPage"
  /\ \E id \in FieldIds : signaturesTable[id] # NoRow
  /\ tab' = [ClosedTab EXCEPT !.view = "SigningPage", !.content = c,
                              !.signatures = signaturesTable]
  /\ UNCHANGED <<storeVars, stampVars, signVars, requests>>

\* PDFViewer.onDocumentLoadSuccess
onDocumentLoadSuccess ==
  /\ tab.view # "none"
  /\ tab.numPages = 0
  /\ tab' = [tab EXCEPT !.numPages = MaxPages]
  /\ UNCHANGED <<storeVars, stampVars, signVars, requests>>

\* the isPageRendered reset effect of SigningPage on [currentPage, zoom]
resetPageRendered(t) ==
  IF t.view = "SigningPage" THEN [t EXCEPT !.isPageRendered = FALSE] ELSE t

\* react-pdf renders the Page again when pageNumber or scale changes
pageChanged(t) == settle(resetPageRendered([t EXCEPT !.rendered = FALSE]))

goToPrevPage ==
  /\ tab.view # "none"
  /\ tab.currentPage > 1
  /\ tab' = pageChanged(
               [tab EXCEPT !.currentPage = Max(tab.currentPage - 1, 1)])
  /\ UNCHANGED <<storeVars, stampVars, signVars, requests>>

\* goToNextPage with its button enabled whatever numPages is
goToNextPage_alwaysEnabled ==
  /\ tab.view # "none"
  /\ tab' = pageChanged(
               [tab EXCEPT !.currentPage = Min(tab.currentPage + 1, tab.numPages)])
  /\ UNCHANGED <<storeVars, stampVars, signVars, requests>>

\* PDFViewer.goToNextPage behind its button, disabled={currentPage >= numPages}
goToNextPage ==
  /\ tab.view # "none"
  /\ tab.currentPage < tab.numPages
  /\ tab' = pageChanged(
               [tab EXCEPT !.currentPage = Min(tab.currentPage + 1, tab.numPages)])
  /\ UNCHANGED <<storeVars, stampVars, signVars, requests>>

handleZoomIn ==
  /\ tab.view # "none"
  /\ tab.zoom < MaxZoom
  /\ tab.zoom + ZoomStep <= InitialZoom + ZoomSpan * ZoomStep
  /\ tab' = pageChanged(
               [tab EXCEPT !.zoom = Min(tab.zoom + ZoomStep, MaxZoom)])
  /\ UNCHANGED <<storeVars, stampVars, signVars, requests>>

handleZoomOut ==
  /\ tab.view # "none"
  /\ tab.zoom > MinZoom
  /\ tab.zoom - ZoomStep >= InitialZoom
  /\ tab' = pageChanged(
               [tab EXCEPT !.zoom = Max(tab.zoom - ZoomStep, MinZoom)])
  /\ UNCHANGED <<storeVars, stampVars, signVars, requests>>

\* SigningPage.handlePageRenderSuccess
handlePageRenderSuccess(t) ==
  [t EXCEPT !.containerSize = measure(t), !.isPageRendered = TRUE]

\* react-pdf finished rendering the current page at the current zoom: the
\* content takes the size of the new canvas and onRenderSuccess is called
PageRenderSuccess(c) ==
  /\ tab.view # "none"
  /\ tab.numPages > 0
  /\ ~tab.rendered
  /\ LET t == [tab EXCEPT !.content = c, !.rendered = TRUE]
     IN  tab' = settle(IF t.view = "SigningPage" THEN handlePageRenderSuccess(t) ELSE t)
  /\ UNCHANGED <<storeVars, stampVars, signVars, requests>>

\* the window or the layout changed the content size
Layout(c) ==
  /\ tab.view # "none"
  /\ c # tab.content
  /\ tab' = [tab EXCEPT !.content = c]
  /\ UNCHANGED <<storeVars, stampVars, signVars, requests>>

\* the ResizeObserver callback of DocumentViewer
ResizeObserved ==
  /\ tab.view = "DocumentViewer"
  /\ tab.containerSize # measure(tab)
  /\ tab' = settle([tab EXCEPT !.containerSize = measure(tab)])
  /\ UNCHANGED <<storeVars, stampVars, signVars, requests>>

\* the signatures effect of DocumentViewer: the observer is recreated and the
\* container measured once
measureEffect(t) == [t EXCEPT !.containerSize = measure(t)]

\* DocumentViewer.fetchSignatures
fetchSignatures(t, table) == measureEffect([t EXCEPT !.signatures = table])

\* DocumentViewer.handleAddSigner: insert a pending field on the current page
\* at (0.1, 0.1), then fetchSignatures
handleAddSigner(id) ==
  /\ tab.view = "DocumentViewer"
  /\ id \in ViewFieldIds
  /\ signaturesTable[id] = NoRow
  /\ \A j \in ViewFieldIds : j < id => signaturesTable[j] # NoRow
  /\ signaturesTable' = [signaturesTable EXCEPT
        ![id] = Row("pending", NULL, Rat(1, 10), Rat(1, 10), tab.currentPage)]
  /\ tab' = fetchSignatures(tab, signaturesTable')
  /\ UNCHANGED <<stampVars, signVars, requests>>

\* SignatureField.handleMouseDown
handleMouseDown(id, offset) ==
  /\ tab.view = "DocumentViewer"
  /\ overlayRendered(tab, id)
  /\ tab.isDragging = 0
  /\ tab.signatures[id].status # "signed"
  /\ tab' = [tab EXCEPT !.isDragging = id, !.dragOffset = offset]
  /\ UNCHANGED <<storeVars, stampVars, signVars, requests>>

\* SignatureField.handleMouseUp
handleMouseUp ==
  /\ tab.isDragging # 0
  /\ tab' = [tab EXCEPT !.isDragging = 0]
  /\ UNCHANGED <<storeVars, stampVars, signVars, requests>>

\* SignatureField.handleMouseMove calling DocumentViewer.handleMoveSignature, up
\* to the await of the update; captured records the position handed to the
\* normalisation and the content size it was divided by
handleMoveSignature(id, pos, scroll, content) ==
  LET n == normalizedPosition(pos, scroll, content)
  IN  [id |-> id, x_position |-> n.x, y_position |-> n.y,
       captured |-> [x |-> pos.x + scroll.left, y |-> pos.y + scroll.top,
                     width |-> content.width, height |-> content.height],
       state |-> "sent"]

mouseMoved(limit, pointer, scroll) ==
  /\ tab.view = "DocumentViewer"
  /\ tab.isDragging # 0
  /\ Len(requests) < limit
  /\ scroll.left <= tab.content.width
  /\ scroll.top <= tab.content.height
  /\ requests' = Append(requests,
        handleMoveSignature(tab.isDragging, dragPosition(pointer, tab.dragOffset),
                            scroll, tab.content))
  /\ UNCHANGED <<storeVars, stampVars, signVars, tab>>

handleMouseMove(pointer, scroll) == mouseMoved(MaxInFlight, pointer, scroll)

\* the store executes update({x_position, y_position}).eq('id', id): a number
\* that is not finite is sent as null and the columns are NOT NULL
ApplyUpdate(i) ==
  /\ i \in 1 .. Len(requests)
  /\ requests[i].state = "sent"
  /\ LET q == requests[i]
         row == signaturesTable[q.id]
     IN  IF row = NoRow
         THEN /\ requests' = [requests EXCEPT ![i].state = "ok"]
              /\ UNCHANGED signaturesTable
         ELSE IF IsFinite(q.x_position) /\ IsFinite(q.y_position)
         THEN /\ requests' = [requests EXCEPT ![i].state = "ok"]
              /\ signaturesTable' = [signaturesTable EXCEPT
                    ![q.id] = [row EXCEPT !.x_position = q.x_position,
                                          !.y_position = q.y_position,
                                          !.captured = q.captured]]
         ELSE /\ requests' = [requests EXCEPT ![i].state = "error"]
              /\ UNCHANGED signaturesTable
  /\ UNCHANGED <<stampVars, signVars, tab>>

RemoveAt(seq, i) == SubSeq(seq, 1, i - 1) \o SubSeq(seq, i + 1, Len(seq))

\* DocumentViewer.handleMoveSignature after the await: setSignatures on
\* success, a toast on error
ResumeMove(i) ==
  /\ i \in 1 .. Len(requests)
  /\ requests[i].state \in {"ok", "error"}
  /\ LET q == requests[i]
     IN  tab' = IF requests[i].state = "ok" /\ tab.view = "DocumentViewer"
                THEN measureEffect([tab EXCEPT !.signatures =
                       [id \in FieldIds |->
                          IF id = q.id /\ tab.signatures[id] # NoRow
                          THEN [tab.signatures[id] EXCEPT
                                  !.x_position = q.x_position,
                                  !.y_position = q.y_position,
                                  !.captured = q.captured]
                          ELSE tab.signatures[id]]])
                ELSE tab
  /\ requests' = RemoveAt(requests, i)
  /\ UNCHANGED <<storeVars, stampVars, signVars>>

\* a store that lets the owner delete the rows of the document
deleteSignature_permitted(table, id) ==
  [table EXCEPT ![id] = NoRow]

\* the store executes delete().eq('id', id) of the owner's session. Row level
\* security is enabled on public.signatures with policies for SELECT, INSERT
\* and UPDATE and none for DELETE: the statement sees no row, deletes none and
\* returns no error.
deleteSignature(table, id) ==
  table

\* DocumentViewer.handleDeleteSignature, offered on a field that is pending
\* in the local list; without an error the field leaves the local list
handleDeleteSignature(id) ==
  /\ tab.view = "DocumentViewer"
  /\ overlayRendered(tab, id)
  /\ tab.signatures[id].status = "pending"
  /\ signaturesTable' = deleteSignature(signaturesTable, id)
  /\ tab' = settle(measureEffect(
        [tab EXCEPT !.signatures[id] = NoRow,
                    !.lastDelete = [id |-> id, status |-> signaturesTable[id].status]]))
  /\ UNCHANGED <<stampVars, signVars, requests>>


\* ------------------------------------------- the signer's pages and capture
\* browser sessions that open a signing link
MaxSessions == 2
SessionIds == 1 .. MaxSessions

\* values of new Date() in a browser
MaxTimes == 2
Times == 1 .. MaxTimes

\* auth.uid() of a session: the owner of the document, or anybody else
Users == {"owner", "visitor"}

\* String.prototype.trim on the strings of the model
Trim(str) == IF str = " " THEN "" ELSE str

\* public.documents.status after a signing link was generated
DocumentPending == "pending"

\* public.documents.status of an uploaded document before any link
DocumentDraft == "draft"

\* public.documents.status as the handlers write it
DocumentStatuses == {DocumentDraft, DocumentPending, "completed"}

\* the signer_email values of the document's fields
Emails == {Ann.email, Bob.email}

\* a row of public.document_shares; used_at 0 is NULL; `via` is history: the
\* handler that inserted the row
NoShare == [exists |-> FALSE, expires_at |-> 0, used_at |-> 0, via |-> "none"]
NoShares == [e \in Emails |-> NoShare]

\* the state of SignatureCapture; strokes is the content of the canvas,
\* hasSignature the value computed by the last render of the dialog
NoDialog ==
  [open |-> FALSE, signerName |-> "", signerEmail |-> "",
   signatureMode |-> "draw", typedSignature |-> "", strokes |-> 0,
   hasSignature |-> FALSE]

\* history of the dialog: what it held at the last click on Complete
\* Signature and whether the click returned or called onComplete, or that the
\* dialog was cancelled
NoAttempt == [result |-> "none", empty |-> FALSE, signerName |-> "", signerEmail |-> ""]

\* the update of handleSignatureComplete, awaited by the session
NoSignUpdate == [state |-> "none", id |-> 0, signature_data |-> NULL, signed_at |-> 0]

ClosedSession ==
  [view |-> "none", error |-> FALSE, signer_email |-> "",
   documentStatus |-> DocumentPending, signatures |-> NoSignatures,
   activeSignature |-> 0, dialog |-> NoDialog, update |-> NoSignUpdate,
   lastComplete |-> NoAttempt]

\* RLS of public.document_shares, public.documents and public.signatures:
\* rows are visible to, and updatable by, the owner of the document only
visibleTo(user) == user = "owner"

\* SigningPage fetchData: the share of the token, the document, all the
\* signatures of the document
fetchData(s, user, signer_email) ==
  /\ sessions[s].view = "none"
  /\ sessions' = [sessions EXCEPT ![s] =
        IF visibleTo(user)
        THEN [ClosedSession EXCEPT !.view = "SigningPage",
                                   !.signer_email = signer_email,
                                   !.documentStatus = documents,
                                   !.signatures = signaturesTable]
        ELSE [ClosedSession EXCEPT !.view = "SigningPage", !.error = TRUE]]
  /\ UNCHANGED <<storeVars, stampVars, viewVars, documents, shares>>

\* SignDocument.loadDocumentShare: the share of the token and the signatures
\* of its signer
loadDocumentShare(s, user, signer_email) ==
  /\ sessions[s].view = "none"
  /\ sessions' = [sessions EXCEPT ![s] =
        IF visibleTo(user)
        THEN [ClosedSession EXCEPT !.view = "SignDocument",
                !.signer_email = signer_email,
                !.signatures = [id \in FieldIds |->
                    IF signaturesTable[id] # NoRow
                       /\ signaturesTable[id].signer_email = signer_email
                    THEN signaturesTable[id] ELSE NoRow]]
        ELSE [ClosedSession EXCEPT !.view = "SignDocument", !.error = TRUE]]
  /\ UNCHANGED <<storeVars, stampVars, viewVars, documents, shares>>

\* useState of SignatureCapture when the dialog mounts
openDialog(signerName, signerEmail) ==
  [NoDialog EXCEPT !.open = TRUE, !.signerName = signerName, !.signerEmail = signerEmail]

\* SigningPage.handleSignatureFieldClick on a field of the signer that is
\* pending in the local list (the other branches only show a toast)
handleSignatureFieldClick(s, id) ==
  /\ sessions[s].view = "SigningPage"
  /\ ~sessions[s].dialog.open
  /\ sessions[s].signatures[id] # NoRow
  /\ sessions[s].signatures[id].signer_email = sessions[s].signer_email
  /\ sessions[s].signatures[id].status = "pending"
  /\ sessions' = [sessions EXCEPT ![s].activeSignature = id,
        ![s].dialog = openDialog(sessions[s].signatures[id].signer_name,
                                 sessions[s].signatures[id].signer_email),
        ![s].lastComplete = NoAttempt]
  /\ UNCHANGED <<storeVars, stampVars, viewVars, documents, shares>>

\* signatures.every(sig => sig.status === 'signed')
allSigned(signatures) ==
  \A id \in FieldIds : signatures[id] # NoRow => signatures[id].status = "signed"

\* signatures.some(sig => sig.status === 'rejected')
hasRejected(signatures) ==
  \E id \in FieldIds : signatures[id] # NoRow /\ signatures[id].status = "rejected"

\* SignDocument.handleSignatureStart from the Sign Here button of a pending
\* field; the dialog is given neither signerName nor signerEmail
handleSignatureStart(s, id) ==
  /\ sessions[s].view = "SignDocument"
  /\ ~sessions[s].dialog.open
  /\ ~allSigned(sessions[s].signatures)
  /\ ~hasRejected(sessions[s].signatures)
  /\ sessions[s].signatures[id] # NoRow
  /\ sessions[s].signatures[id].status = "pending"
  /\ sessions' = [sessions EXCEPT ![s].activeSignature = id,
        ![s].dialog = openDialog("", ""),
        ![s].lastComplete = NoAttempt]
  /\ UNCHANGED <<storeVars, stampVars, viewVars, documents, shares>>

\* the derived hasSignature of a render of the dialog
hasSignature(d) ==
  IF d.signatureMode = "draw" THEN d.strokes > 0 ELSE Trim(d.typedSignature) # ""

renderDialog(d) == [d EXCEPT !.hasSignature = hasSignature(d)]

\* a stroke on the SignatureCanvas: the canvas changes, nothing renders
drawStroke(s) ==
  /\ sessions[s].dialog.open
  /\ sessions[s].dialog.signatureMode = "draw"
  /\ sessions[s].dialog.strokes = 0
  /\ sessions' = [sessions EXCEPT ![s].dialog.strokes = 1]
  /\ UNCHANGED <<storeVars, stampVars, viewVars, documents, shares>>

\* a render of the dialog caused by its parent
rerender(s) ==
  /\ sessions[s].dialog.open
  /\ sessions[s].dialog # renderDialog(sessions[s].dialog)
  /\ sessions' = [sessions EXCEPT ![s].dialog = renderDialog(@)]
  /\ UNCHANGED <<storeVars, stampVars, viewVars, documents, shares>>

\* SignatureCapture.clearSignature: the dialog renders only if typedSignature
\* changes
clearSignature(s) ==
  /\ sessions[s].dialog.open
  /\ sessions[s].dialog.strokes > 0 \/ sessions[s].dialog.typedSignature # ""
  /\ LET d == [sessions[s].dialog EXCEPT !.strokes = 0, !.typedSignature = ""]
     IN  sessions' = [sessions EXCEPT ![s].dialog =
            IF sessions[s].dialog.typedSignature # "" THEN renderDialog(d) ELSE d]
  /\ UNCHANGED <<storeVars, stampVars, viewVars, documents, shares>>

\* the Draw Signature / Type Signature buttons: the other input is mounted,
\* a new canvas is empty
setSignatureMode(s, mode) ==
  /\ sessions[s].dialog.open
  /\ sessions[s].dialog.signatureMode # mode
  /\ sessions' = [sessions EXCEPT ![s].dialog =
        renderDialog([@ EXCEPT !.signatureMode = mode, !.strokes = 0])]
  /\ UNCHANGED <<storeVars, stampVars, viewVars, documents, shares>>

\* onChange of the typed signature input
setTypedSignature(s, text) ==
  /\ sessions[s].dialog.open
  /\ sessions[s].dialog.signatureMode = "type"
  /\ sessions[s].dialog.typedSignature # text
  /\ sessions' = [sessions EXCEPT ![s].dialog =
        renderDialog([@ EXCEPT !.typedSignature = text])]
  /\ UNCHANGED <<storeVars, stampVars, viewVars, documents, shares>>

\* whether the input of the current mode is empty: no stroke on the canvas,
\* or a typed string that trims to nothing
emptyInput(d) ==
  IF d.signatureMode = "draw" THEN d.strokes = 0 ELSE Trim(d.typedSignature) = ""

\* a handleComplete that takes the image of the canvas without looking at it
signatureData_unchecked(d) ==
  ImagePng

\* handleComplete, lines 40-63: the data URL of the canvas or of the typed
\* text, '' when there is none
signatureData(d) ==
  IF d.signatureMode = "draw"
  THEN IF d.strokes > 0 THEN ImagePng ELSE ""
  ELSE IF Trim(d.typedSignature) # "" THEN ImagePng ELSE ""

\* a Complete Signature button that looks at the signature only
completeDisabled_signatureOnly(d) ==
  ~d.hasSignature

\* disabled={!hasSignature || !signerName.trim() || !signerEmail.trim()}
completeDisabled(d) ==
  ~d.hasSignature \/ Trim(d.signerName) = "" \/ Trim(d.signerEmail) = ""

\* handleSignatureComplete of either page up to the await: the update of
\* signature_data, status and signed_at is sent
handleSignatureComplete(session, data, t) ==
  IF session.activeSignature = 0
  THEN session
  ELSE [session EXCEPT !.update =
          [state |-> "sent", id |-> session.activeSignature,
           signature_data |-> data, signed_at |-> t]]

\* a click on Complete Signature: SignatureCapture.handleComplete, and
\* through onComplete the handleSignatureComplete of the page
handleComplete(s, t) ==
  /\ sessions[s].dialog.open
  /\ ~completeDisabled(sessions[s].dialog)
  /\ sessions[s].update.state = "none"
  /\ LET d == sessions[s].dialog
         data == signatureData(d)
         attempt == [result |-> IF data = "" THEN "returned" ELSE "onComplete",
                     empty |-> emptyInput(d),
                     signerName |-> d.signerName, signerEmail |-> d.signerEmail]
     IN  sessions' = [sessions EXCEPT ![s] =
            IF data = ""
            THEN [@ EXCEPT !.lastComplete = attempt]
            ELSE [handleSignatureComplete(@, data, t) EXCEPT !.lastComplete = attempt]]
  /\ UNCHANGED <<storeVars, stampVars, viewVars, documents, shares>>

\* a store that writes the status of the update and not yet its image
signedRow_statusOnly(row, q) ==
  [row EXCEPT !.status = "signed", !.signed_at = q.signed_at]

\* the row after update({signature_data, status: 'signed', signed_at}): one
\* statement, all three columns at once
signedRow(row, q) ==
  [row EXCEPT !.signature_data = q.signature_data, !.status = "signed",
              !.signed_at = q.signed_at]

\* the store executes the update .eq('id', id) of a session, or the request
\* fails
ApplySign(s, fails) ==
  /\ sessions[s].update.state = "sent"
  /\ LET q == sessions[s].update IN
     IF fails
     THEN /\ sessions' = [sessions EXCEPT ![s].update.state = "error"]
          /\ UNCHANGED signaturesTable
     ELSE /\ sessions' = [sessions EXCEPT ![s].update.state = "ok"]
          /\ signaturesTable' =
               IF signaturesTable[q.id] = NoRow THEN signaturesTable
               ELSE [signaturesTable EXCEPT ![q.id] = signedRow(@, q)]
  /\ UNCHANGED <<stampVars, viewVars, documents, shares>>

\* the local list after a saved signature
signedLocally(signatures, q) ==
  [id \in FieldIds |->
     IF id = q.id /\ signatures[id] # NoRow
     THEN [signatures[id] EXCEPT !.status = "signed", !.signature_data = q.signature_data]
     ELSE signatures[id]]

\* update({ used_at }).eq('id', documentShare.id): row level security is
\* enabled on document_shares with policies FOR SELECT and FOR INSERT only,
\* so the update changes no row and returns no error
markUsed(table, signer_email, t) == table

\* handleSignatureComplete after the await. SigningPage: the local list, the
\* dialog closed, checkAndCompleteDocument. SignDocument: the local list, the
\* share marked used when all are signed (document_shares has no UPDATE
\* policy: no row changes), the dialog closed. On an error: a toast.
ResumeSign(s) ==
  /\ sessions[s].update.state \in {"ok", "error"}
  /\ LET q == sessions[s].update
         updatedSignatures == signedLocally(sessions[s].signatures, q)
         completes == /\ sessions[s].view = "SigningPage"
                      /\ allSigned(updatedSignatures)
                      /\ sessions[s].documentStatus = "pending"
     IN  IF q.state = "error"
         THEN /\ sessions' = [sessions EXCEPT ![s].update = NoSignUpdate]
              /\ UNCHANGED documents
         ELSE /\ sessions' = [sessions EXCEPT ![s] =
                    [@ EXCEPT !.update = NoSignUpdate,
                              !.signatures = updatedSignatures,
                              !.activeSignature = 0,
                              !.dialog = NoDialog,
                              !.lastComplete = NoAttempt,
                              !.documentStatus = IF completes THEN "completed" ELSE @]]
              /\ documents' = IF completes THEN "completed" ELSE documents
  /\ shares' = IF sessions[s].update.state = "ok"
                  /\ sessions[s].view = "SignDocument"
                  /\ allSigned(signedLocally(sessions[s].signatures, sessions[s].update))
               THEN markUsed(shares, sessions[s].signer_email, now)
               ELSE shares
  /\ UNCHANGED <<storeVars, stampVars, viewVars>>

\* a cancel that records the field as signed in the local list
cancelled_marksSigned(session) ==
  [session EXCEPT !.activeSignature = 0, !.dialog = NoDialog,
                  !.lastComplete = [NoAttempt EXCEPT !.result = "cancelled"],
                  !.signatures[session.activeSignature].status = "signed"]

\* onCancel of either page: setActiveSignature(null), or setSigningMode(false)
\* and setCurrentSignatureId(null)
cancelled(session) ==
  [session EXCEPT !.activeSignature = 0, !.dialog = NoDialog,
                  !.lastComplete = [NoAttempt EXCEPT !.result = "cancelled"]]

\* the Cancel button, or the dialog closed through onOpenChange
onCancel(s) ==
  /\ sessions[s].dialog.open
  /\ sessions' = [sessions EXCEPT ![s] = cancelled(@)]
  /\ UNCHANGED <<storeVars, stampVars, viewVars, documents, shares>>

\* update({status: 'rejected'}).eq('document_id', ...).eq('signer_email', ...)
rejectedRows(table, signer_email) ==
  [id \in FieldIds |->
     IF table[id] # NoRow /\ table[id].signer_email = signer_email
     THEN [table[id] EXCEPT !.status = "rejected"]
     ELSE table[id]]

\* SignDocument.handleRejectDocument from the Reject Document button, shown
\* while the local list is neither all signed nor rejected; ends in
\* navigate('/')
handleRejectDocument(s) ==
  /\ sessions[s].view = "SignDocument"
  /\ ~sessions[s].error
  /\ ~sessions[s].dialog.open
  /\ ~allSigned(sessions[s].signatures)
  /\ ~hasRejected(sessions[s].signatures)
  /\ signaturesTable' = rejectedRows(signaturesTable, sessions[s].signer_email)
  /\ sessions' = [sessions EXCEPT ![s] = ClosedSession]
  /\ shares' = markUsed(shares, sessions[s].signer_email, now)
  /\ UNCHANGED <<stampVars, viewVars, documents>>

\* --- signing links
\* ticks of the clock a link lives (30 days in the handlers)
ShareLife == 1

\* new Date(shareData.expires_at) < new Date()
expired(share, t) == share.expires_at < t

\* insert({document_id, signer_email, token, expires_at}) with expires_at 30
\* days ahead
insertShare(table, signer_email, t, via) ==
  [table EXCEPT ![signer_email] =
     [exists |-> TRUE, expires_at |-> t + ShareLife, used_at |-> 0, via |-> via]]

\* DocumentViewer.generateSigningLink from the Generate Link button of a
\* pending field; status is the viewer's copy of documents.status, which may
\* still be the draft it was opened with. The model keeps one link a signer.
generateSigningLink(id, status) ==
  /\ status \in {DocumentDraft, documents}
  /\ signaturesTable[id] # NoRow
  /\ signaturesTable[id].status = "pending"
  /\ shares[signaturesTable[id].signer_email] = NoShare
  /\ documents' = IF status = DocumentDraft THEN DocumentPending ELSE documents
  /\ shares' = insertShare(shares, signaturesTable[id].signer_email, now,
                           "DocumentViewer.generateSigningLink")
  /\ UNCHANGED <<storeVars, stampVars, viewVars, sessions>>

\* doc.signatures.find(s => s.status === 'pending')
RECURSIVE firstPendingSignature(_, _)
firstPendingSignature(table, id) ==
  IF id > MaxFields THEN 0
  ELSE IF table[id] # NoRow /\ table[id].status = "pending" THEN id
  ELSE firstPendingSignature(table, id + 1)

\* Dashboard.handleShare: a link for the signer of the first pending field;
\* the document's status is not touched
handleShare ==
  LET id == firstPendingSignature(signaturesTable, 1) IN
  /\ id # 0
  /\ shares[signaturesTable[id].signer_email] = NoShare
  /\ shares' = insertShare(shares, signaturesTable[id].signer_email, now,
                           "Dashboard.handleShare")
  /\ UNCHANGED <<storeVars, stampVars, viewVars, documents, sessions>>

\* a signer opens the link of signer_email on the signing page: the share is
\* looked up by its token and nothing of it but document_id and signer_email
\* is read
openSigningPage(s, user, signer_email) ==
  /\ shares[signer_email].exists
  /\ fetchData(s, user, signer_email)

\* a signer opens the link on SignDocument: the share is looked up by its
\* token, and an expired or used share ends in the error view
openSignDocument(s, user, signer_email) ==
  /\ shares[signer_email].exists
  /\ IF expired(shares[signer_email], now) \/ shares[signer_email].used_at # 0
     THEN /\ sessions[s].view = "none"
          /\ sessions' = [sessions EXCEPT ![s] =
                [ClosedSession EXCEPT !.view = "SignDocument", !.error = TRUE]]
          /\ UNCHANGED <<storeVars, stampVars, viewVars, documents, shares>>
     ELSE loadDocumentShare(s, user, signer_email)

\* ------------------------------------------------- download-signed-document
RunIds == {"run1"}

Callers == {"Dashboard.handleDownload", "DocumentViewer.downloadDocument",
            "SigningPage.handlePreviewDownload"}

NoUrl      == [file_name |-> NULL, t |-> 0]
NoBytes    == [pages |-> 0, images |-> <<>>]
NoResponse == [status |-> 0, signedUrl |-> NoUrl, error |-> NULL]

IdleRun ==
  [pc |-> "idle", caller |-> NULL, document_id |-> NULL, signatures |-> <<>>,
   drawn |-> <<>>, pdfBytes |-> NoBytes, error |-> NULL, response |-> NoResponse]

\* the catch block: every thrown error becomes a 500 response carrying the message
errorResponse(message) == [status |-> 500, signedUrl |-> NoUrl, error |-> message]

\* the success response: the public URL of the uploaded object
urlResponse(name) == [status |-> 200, signedUrl |-> name, error |-> NULL]

\* the signature query without its status filter
RECURSIVE signedRows_anyStatus(_, _)
signedRows_anyStatus(table, id) ==
  IF id > MaxFields THEN <<>>
  ELSE IF table[id].status # "absent"
       THEN <<table[id]>> \o signedRows_anyStatus(table, id + 1)
       ELSE signedRows_anyStatus(table, id + 1)

\* the signature query with a filter that lets rejected rows through
RECURSIVE signedRows_notPending(_, _)
signedRows_notPending(table, id) ==
  IF id > MaxFields THEN <<>>
  ELSE IF table[id].status \in {"signed", "rejected"}
       THEN <<table[id]>> \o signedRows_notPending(table, id + 1)
       ELSE signedRows_notPending(table, id + 1)

\* the rows the signature query returns: .eq('status', 'signed'), in id order
RECURSIVE signedRows(_, _)
signedRows(table, id) ==
  IF id > MaxFields THEN <<>>
  ELSE IF table[id].status = "signed"
       THEN <<table[id]>> \o signedRows(table, id + 1)
       ELSE signedRows(table, id + 1)

\* pages[sig.page_number - 1]: the page index, or Undefined
Undefined == -1
pageAt(page_number) ==
  IF (page_number - 1) \in PageIndexes THEN page_number - 1 ELSE Undefined

\* pdfDoc.embedPng: succeeds on PNG data, throws on anything else
embedPngThrows(data) == data # ImagePng

\* drawImage without the top-down to bottom-up correction by the field height
drawImage_noHeight(sig, i) ==
  [page   |-> i,
   image  |-> sig.signature_data,
   x      |-> Mul(sig.x_position, Whole(getWidth(i))),
   y      |-> Sub(Whole(getHeight(i)), Mul(sig.y_position, Whole(getHeight(i)))),
   width  |-> sig.width,
   height |-> sig.height]

\* the options of page.drawImage for one signature on the page of index i
drawImage(sig, i) ==
  [page   |-> i,
   image  |-> sig.signature_data,
   x      |-> Mul(sig.x_position, Whole(getWidth(i))),
   y      |-> Sub(Sub(Whole(getHeight(i)),
                      Mul(sig.y_position, Whole(getHeight(i)))),
                  Whole(sig.height)),
   width  |-> sig.width,
   height |-> sig.height]

\* the loop with a missing page treated as fatal
RECURSIVE stampLoop_abortOnMissingPage(_, _)
stampLoop_abortOnMissingPage(sigs, drawn) ==
  IF sigs = <<>> THEN [drawn |-> drawn, error |-> NULL]
  ELSE LET sig == Head(sigs) IN
       IF sig.signature_data = NULL THEN stampLoop_abortOnMissingPage(Tail(sigs), drawn)
       ELSE IF pageAt(sig.page_number) = Undefined
            THEN [drawn |-> drawn, error |-> "page out of range"]
       ELSE IF embedPngThrows(sig.signature_data)
            THEN [drawn |-> drawn, error |-> "embedPng failed"]
       ELSE stampLoop_abortOnMissingPage(Tail(sigs),
                      Append(drawn, drawImage(sig, pageAt(sig.page_number))))

\* the loop with an embed failure skipped like a missing page
RECURSIVE stampLoop_skipOnEmbedFailure(_, _)
stampLoop_skipOnEmbedFailure(sigs, drawn) ==
  IF sigs = <<>> THEN [drawn |-> drawn, error |-> NULL]
  ELSE LET sig == Head(sigs) IN
       IF sig.signature_data = NULL THEN stampLoop_skipOnEmbedFailure(Tail(sigs), drawn)
       ELSE IF pageAt(sig.page_number) = Undefined
            THEN stampLoop_skipOnEmbedFailure(Tail(sigs), drawn)
       ELSE IF embedPngThrows(sig.signature_data)
            THEN stampLoop_skipOnEmbedFailure(Tail(sigs), drawn)
       ELSE stampLoop_skipOnEmbedFailure(Tail(sigs),
                      Append(drawn, drawImage(sig, pageAt(sig.page_number))))

\* the stamping loop over the queried rows: the images drawn so far, and the
\* error that ended the loop (NULL when it ran to its end)
RECURSIVE stampLoop(_, _)
stampLoop(sigs, drawn) ==
  IF sigs = <<>> THEN [drawn |-> drawn, error |-> NULL]
  ELSE LET sig == Head(sigs) IN
       IF sig.signature_data = NULL THEN stampLoop(Tail(sigs), drawn)
       ELSE IF pageAt(sig.page_number) = Undefined THEN stampLoop(Tail(sigs), drawn)
       ELSE IF embedPngThrows(sig.signature_data)
            THEN [drawn |-> drawn, error |-> "embedPng failed"]
       ELSE stampLoop(Tail(sigs),
                      Append(drawn, drawImage(sig, pageAt(sig.page_number))))

\* `${file_name.replace('.pdf', '')}_signed_${Date.now()}.pdf`
signedFileName(file_name, t) == [file_name |-> file_name, t |-> t]

\* storage.upload(name, bytes, {upsert: true}); `by` records the writing run
upsert(bucket, name, bytes, r) ==
  {o \in bucket : o.name # name} \cup {[name |-> name, bytes |-> bytes, by |-> r]}

\* supabase.functions.invoke from one of the three callers
Invoke(r, caller) ==
  /\ runs[r].pc = "idle"
  /\ runs' = [runs EXCEPT ![r] = [IdleRun EXCEPT !.pc = "invoked",
                                   !.caller = caller, !.document_id = DocumentId]]
  /\ UNCHANGED <<signaturesTable, signedDocuments, now, opened, viewVars, signVars>>

\* a request to the function with no document_id in its body
InvokeWithoutId(r) ==
  /\ runs[r].pc = "idle"
  /\ runs' = [runs EXCEPT ![r] = [IdleRun EXCEPT !.pc = "invoked", !.caller = "http"]]
  /\ UNCHANGED <<signaturesTable, signedDocuments, now, opened, viewVars, signVars>>

\* lines 11-39: the body, the document row, the source file, the signed rows
Query(r) ==
  /\ runs[r].pc = "invoked"
  /\ \E outcome \in {"ok", "docError", "fileError", "sigError"} :
       runs' = [runs EXCEPT ![r] =
         IF runs[r].document_id = NULL
         THEN [@ EXCEPT !.pc = "responded", !.error = "Document ID is required.",
                        !.response = errorResponse("Document ID is required.")]
         ELSE IF outcome # "ok"
         THEN [@ EXCEPT !.pc = "responded", !.error = outcome,
                        !.response = errorResponse(outcome)]
         ELSE [@ EXCEPT !.pc = "queried",
                        !.signatures = signedRows(signaturesTable, 1)]]
  /\ UNCHANGED <<signaturesTable, signedDocuments, now, opened, viewVars, signVars>>

\* lines 41-66: PDFDocument.load, the stamping loop, pdfDoc.save
Stamp(r) ==
  /\ runs[r].pc = "queried"
  /\ \E parses \in BOOLEAN :
       LET res == stampLoop(runs[r].signatures, <<>>) IN
       runs' = [runs EXCEPT ![r] =
         IF ~parses
         THEN [@ EXCEPT !.pc = "responded", !.error = "load failed",
                        !.response = errorResponse("load failed")]
         ELSE IF res.error # NULL
         THEN [@ EXCEPT !.pc = "responded", !.drawn = res.drawn,
                        !.error = res.error,
                        !.response = errorResponse(res.error)]
         ELSE [@ EXCEPT !.pc = "stamped", !.drawn = res.drawn,
                        !.pdfBytes = [pages |-> MaxPages, images |-> res.drawn]]]
  /\ UNCHANGED <<signaturesTable, signedDocuments, now, opened, viewVars, signVars>>

\* lines 69-87: the upload of the stamped bytes and the URL response
Upload(r) ==
  /\ runs[r].pc = "stamped"
  /\ LET name == signedFileName(FileName, now) IN
     \E uploadError \in BOOLEAN :
       IF uploadError
       THEN /\ runs' = [runs EXCEPT ![r] =
                  [@ EXCEPT !.pc = "responded", !.error = "uploadError",
                            !.response = errorResponse("uploadError")]]
            /\ UNCHANGED signedDocuments
       ELSE /\ signedDocuments' = upsert(signedDocuments, name, runs[r].pdfBytes, r)
            /\ runs' = [runs EXCEPT ![r] =
                  [@ EXCEPT !.pc = "responded", !.response = urlResponse(name)]]
  /\ UNCHANGED <<signaturesTable, now, opened, viewVars, signVars>>

\* a caller that opens whatever the response carries
opensWindow_unchecked(response) == response.status # 0

\* the caller after `await supabase.functions.invoke`: functions.invoke gives
\* {data: null, error} for a non-2xx response; the caller throws on error and
\* on data.error, and opens data.signedUrl when there is one
opensWindow(response) ==
  LET error == IF response.status = 200 THEN NULL ELSE "FunctionsHttpError"
      data  == IF response.status = 200 THEN response ELSE NoResponse
  IN  /\ error = NULL
      /\ data.error = NULL
      /\ data.signedUrl # NoUrl

\* the keys of the JSON body of a response: { signedUrl } on success,
\* { error } from the catch block
payloadKeys(response) ==
  IF response.status = 200 THEN {"signedUrl"}
  ELSE IF response.status = 500 THEN {"error"}
  ELSE {}

\* the description of the caller's error toast, error.message of what the
\* caller threw; NULL when it threw nothing
toastDescription(response) ==
  LET error == IF response.status = 200 THEN NULL
               ELSE "Edge Function returned a non-2xx status code"
      data  == IF response.status = 200 THEN response ELSE NoResponse
  IN  IF error # NULL THEN error
      ELSE IF data.error # NULL THEN data.error
      ELSE IF data.signedUrl = NoUrl THEN "Function did not return a valid URL."
      ELSE NULL

Resume(r, caller) ==
  /\ runs[r].pc = "responded"
  /\ runs[r].caller = caller
  /\ runs' = [runs EXCEPT ![r].pc = "done"]
  /\ opened' = IF opensWindow(runs[r].response)
               THEN opened \cup {[caller |-> caller, run |-> r,
                                   url |-> runs[r].response.signedUrl]}
               ELSE opened
  /\ UNCHANGED <<signaturesTable, signedDocuments, now, viewVars, signVars>>

handleDownload(r)        == Resume(r, "Dashboard.handleDownload")
downloadDocument(r)      == Resume(r, "DocumentViewer.downloadDocument")
handlePreviewDownload(r) == Resume(r, "SigningPage.handlePreviewDownload")

\* ------------------------------------------------- stamping specification
\* The rows the function may find.  A signed row has no image, a PNG or
\* undecodable bytes, at a position on page 1, on page 2, or on a page past
\* the end of the document; a row that is not signed is pending, rejected
\* before signing, or rejected after signing (its image still stored).
StampPlacements ==
  { <<Rat(1, 10), Rat(1, 10), 1>>,
    <<Rat(1, 2),  Rat(3, 4),  2>>,
    <<Rat(1, 10), Rat(1, 10), MaxPages + 1>> }

StampRows ==
  { Row("signed", d, p[1], p[2], p[3]) :
      d \in {NULL, ImagePng, ImageCorrupt}, p \in StampPlacements }
  \cup { Row("pending", NULL, Rat(1, 10), Rat(1, 10), 1),
         Row("rejected", NULL, Rat(1, 10), Rat(1, 10), 1),
         Row("rejected", ImagePng, Rat(1, 2), Rat(3, 4), 2) }

StampInit ==
  /\ signaturesTable \in [FieldIds -> StampRows]
  /\ signedDocuments = {}
  /\ now = 0
  /\ runs = [r \in RunIds |-> IdleRun]
  /\ opened = {}
  /\ tab = ClosedTab
  /\ requests = <<>>
  /\ documents = DocumentPending
  /\ sessions = [s \in SessionIds |-> ClosedSession]
  /\ shares = NoShares

StampNext ==
  \E r \in RunIds :
    \/ \E c \in Callers : Invoke(r, c)
    \/ InvokeWithoutId(r)
    \/ Query(r)
    \/ Stamp(r)
    \/ Upload(r)
    \/ handleDownload(r)
    \/ downloadDocument(r)
    \/ handlePreviewDownload(r)

SpecStamp == StampInit /\ [][StampNext]_vars

\* --- the owner's viewer and the signer's page over an initially empty store
ViewInit ==
  /\ signaturesTable = NoSignatures
  /\ signedDocuments = {}
  /\ now = 0
  /\ runs = [r \in RunIds |-> IdleRun]
  /\ opened = {}
  /\ tab = ClosedTab
  /\ requests = <<>>
  /\ documents = DocumentPending
  /\ sessions = [s \in SessionIds |-> ClosedSession]
  /\ shares = NoShares

ViewNext ==
  \/ \E c \in ContentSizes : OpenDocumentViewer(c)
  \/ \E c \in ContentSizes : OpenSigningPage(c)
  \/ onDocumentLoadSuccess
  \/ goToPrevPage
  \/ goToNextPage
  \/ handleZoomIn
  \/ handleZoomOut
  \/ \E c \in ContentSizes : PageRenderSuccess(c)
  \/ \E c \in ContentSizes : Layout(c)
  \/ ResizeObserved
  \/ \E id \in ViewFieldIds : handleAddSigner(id)
  \/ \E id \in ViewFieldIds, offset \in DragOffsets : handleMouseDown(id, offset)
  \/ handleMouseUp
  \/ \E pointer \in Pointers, scroll \in Scrolls : handleMouseMove(pointer, scroll)
  \/ \E i \in 1 .. MaxInFlight : ApplyUpdate(i)
  \/ \E i \in 1 .. MaxInFlight : ResumeMove(i)
  \/ \E id \in ViewFieldIds : handleDeleteSignature(id)

SpecView == ViewInit /\ [][ViewNext]_vars

\* --- signers on a document whose fields are placed and whose link is out,
\* --- with one preview of the signed document
\* fields of the document
MaxSignFields == 2
SignFieldIds == 1 .. Min(MaxSignFields, MaxFields)

\* the signers the owner added
Signers == {Ann, Bob}

PendingRow(signer) ==
  [Row("pending", NULL, Rat(1, 10), Rat(1, 10), 1) EXCEPT
     !.signer_email = signer.email, !.signer_name = signer.name]

SignInit ==
  /\ \E first \in {Ann}, others \in [SignFieldIds \ {1} -> Signers] :
        signaturesTable = [id \in FieldIds |->
           IF id = 1 THEN PendingRow(first)
           ELSE IF id \in SignFieldIds THEN PendingRow(others[id])
           ELSE NoRow]
  /\ signedDocuments = {}
  /\ now = 0
  /\ runs = [r \in RunIds |-> IdleRun]
  /\ opened = {}
  /\ tab = ClosedTab
  /\ requests = <<>>
  /\ documents = DocumentPending
  /\ sessions = [s \in SessionIds |-> ClosedSession]
  /\ shares = NoShares

SignNext ==
  \/ \E s \in SessionIds, user \in Users, signer \in Signers :
        fetchData(s, user, signer.email)
  \/ \E s \in SessionIds, user \in Users, signer \in Signers :
        loadDocumentShare(s, user, signer.email)
  \/ \E s \in SessionIds, id \in FieldIds : handleSignatureFieldClick(s, id)
  \/ \E s \in SessionIds, id \in FieldIds : handleSignatureStart(s, id)
  \/ \E s \in SessionIds : drawStroke(s)
  \/ \E s \in SessionIds : rerender(s)
  \/ \E s \in SessionIds, t \in Times : handleComplete(s, t)
  \/ \E s \in SessionIds, fails \in BOOLEAN : ApplySign(s, fails)
  \/ \E s \in SessionIds : ResumeSign(s)
  \/ \E s \in SessionIds : onCancel(s)
  \/ \E s \in SessionIds : handleRejectDocument(s)

SpecSign == SignInit /\ [][SignNext]_vars

\* --- one signer on the signing page, and the preview of the signed document
\* --- running beside the signing
PreviewSession == 1

PreviewNext ==
  \/ \E signer \in Signers : fetchData(PreviewSession, "owner", signer.email)
  \/ \E id \in FieldIds : handleSignatureFieldClick(PreviewSession, id)
  \/ drawStroke(PreviewSession)
  \/ rerender(PreviewSession)
  \/ \E t \in Times : handleComplete(PreviewSession, t)
  \/ \E fails \in BOOLEAN : ApplySign(PreviewSession, fails)
  \/ ResumeSign(PreviewSession)
  \/ onCancel(PreviewSession)
  \/ \E r \in RunIds :
        \/ Invoke(r, "SigningPage.handlePreviewDownload")
        \/ Query(r)
        \/ Stamp(r)
        \/ Upload(r)
        \/ handlePreviewDownload(r)

SpecPreview == SignInit /\ [][PreviewNext]_vars

\* --- the owner's viewer beside a signer: drags and deletes of fields that a
\* --- signer signs or rejects in the meantime
OwnerContent == [width |-> 200, height |-> 300]
OwnerPointers == { [x |-> 120, y |-> 160], [x |-> 170, y |-> 235] }
OwnerScroll == [left |-> 0, top |-> 0]
\* the field the owner drags and deletes
OwnerFieldIds == {1}
SigningSession == 1
RejectingSession == 2

OwnerNext ==
  \/ OpenDocumentViewer(OwnerContent)
  \/ \E id \in OwnerFieldIds, offset \in DragOffsets : handleMouseDown(id, offset)
  \/ handleMouseUp
  \/ \E pointer \in OwnerPointers : handleMouseMove(pointer, OwnerScroll)
  \/ \E i \in 1 .. MaxInFlight : ApplyUpdate(i)
  \/ \E i \in 1 .. MaxInFlight : ResumeMove(i)
  \/ \E id \in OwnerFieldIds : handleDeleteSignature(id)
  \/ fetchData(SigningSession, "owner", Ann.email)
  \/ \E id \in FieldIds : handleSignatureFieldClick(SigningSession, id)
  \/ drawStroke(SigningSession)
  \/ rerender(SigningSession)
  \/ \E t \in Times : handleComplete(SigningSession, t)
  \/ ApplySign(SigningSession, FALSE)
  \/ ResumeSign(SigningSession)
  \/ \E signer \in Signers : loadDocumentShare(RejectingSession, "owner", signer.email)
  \/ handleRejectDocument(RejectingSession)

SpecOwner == SignInit /\ [][OwnerNext]_vars

\* --- one drag in the owner's viewer, every mouse move sending its update
\* position updates of one drag in flight at once
MaxDragInFlight == 2

DragNext ==
  \/ OpenDocumentViewer(OwnerContent)
  \/ \E id \in OwnerFieldIds, offset \in DragOffsets : handleMouseDown(id, offset)
  \/ handleMouseUp
  \/ \E pointer \in OwnerPointers : mouseMoved(MaxDragInFlight, pointer, OwnerScroll)
  \/ \E i \in 1 .. MaxDragInFlight : ApplyUpdate(i)
  \/ \E i \in 1 .. MaxDragInFlight : ResumeMove(i)

SpecDrag == SignInit /\ [][DragNext]_vars

\* --- the capture dialog on both signer pages
\* a signer whose name was entered as a blank
Blank == [email |-> "cat@example.com", name |-> " "]
CaptureSigners == {Ann, Blank}
CaptureSession == 1
\* values typed into the typed-signature input
TypedSignatures == {"", " ", "Ann"}

CaptureInit ==
  /\ \E signer \in CaptureSigners :
        signaturesTable = [id \in FieldIds |->
           IF id = 1 THEN PendingRow(signer) ELSE NoRow]
  /\ signedDocuments = {}
  /\ now = 0
  /\ runs = [r \in RunIds |-> IdleRun]
  /\ opened = {}
  /\ tab = ClosedTab
  /\ requests = <<>>
  /\ documents = DocumentPending
  /\ sessions = [s \in SessionIds |-> ClosedSession]
  /\ shares = NoShares

CaptureNext ==
  \/ \E signer \in CaptureSigners : fetchData(CaptureSession, "owner", signer.email)
  \/ \E signer \in CaptureSigners : loadDocumentShare(CaptureSession, "owner", signer.email)
  \/ \E id \in FieldIds : handleSignatureFieldClick(CaptureSession, id)
  \/ \E id \in FieldIds : handleSignatureStart(CaptureSession, id)
  \/ drawStroke(CaptureSession)
  \/ rerender(CaptureSession)
  \/ clearSignature(CaptureSession)
  \/ \E mode \in {"draw", "type"} : setSignatureMode(CaptureSession, mode)
  \/ \E text \in TypedSignatures : setTypedSignature(CaptureSession, text)
  \/ \E t \in Times : handleComplete(CaptureSession, t)
  \/ \E fails \in BOOLEAN : ApplySign(CaptureSession, fails)
  \/ ResumeSign(CaptureSession)
  \/ onCancel(CaptureSession)

SpecCapture == CaptureInit /\ [][CaptureNext]_vars

\* --- two invocations of the function beside a signer
RaceRunIds == {"run1", "run2"}
RaceSession == 1

\* the clock read by Date.now() and new Date() advances by one tick
Tick ==
  /\ now < MaxTimes
  /\ now' = now + 1
  /\ UNCHANGED <<signaturesTable, signedDocuments, runs, opened, viewVars, signVars>>

RaceInit ==
  /\ signaturesTable = [id \in FieldIds |->
        IF id = 1 THEN PendingRow(Ann) ELSE NoRow]
  /\ signedDocuments = {}
  /\ now = 0
  /\ runs = [r \in RaceRunIds |-> IdleRun]
  /\ opened = {}
  /\ tab = ClosedTab
  /\ requests = <<>>
  /\ documents = DocumentPending
  /\ sessions = [s \in SessionIds |-> ClosedSession]
  /\ shares = NoShares

RaceNext ==
  \/ fetchData(RaceSession, "owner", Ann.email)
  \/ \E id \in FieldIds : handleSignatureFieldClick(RaceSession, id)
  \/ drawStroke(RaceSession)
  \/ rerender(RaceSession)
  \/ \E t \in Times : handleComplete(RaceSession, t)
  \/ ApplySign(RaceSession, FALSE)
  \/ ResumeSign(RaceSession)
  \/ Tick
  \/ \E r \in RaceRunIds :
        \/ Invoke(r, "Dashboard.handleDownload")
        \/ Query(r)
        \/ Stamp(r)
        \/ Upload(r)
        \/ handleDownload(r)

SpecRace == RaceInit /\ [][RaceNext]_vars

\* --- measurement of the page surface: the viewer and the signing page with
\* --- the events that change the content size. react-pdf finishes the load
\* --- and every render it started, and a ResizeObserver callback that is due
\* --- is delivered.
MeasureNext ==
  \/ \E c \in ContentSizes : OpenDocumentViewer(c)
  \/ \E c \in ContentSizes : OpenSigningPage(c)
  \/ onDocumentLoadSuccess
  \/ goToPrevPage
  \/ goToNextPage
  \/ handleZoomIn
  \/ handleZoomOut
  \/ \E c \in ContentSizes : PageRenderSuccess(c)
  \/ \E c \in ContentSizes : Layout(c)
  \/ ResizeObserved
  \/ \E id \in ViewFieldIds : handleAddSigner(id)

SpecMeasure ==
  /\ ViewInit
  /\ [][MeasureNext]_vars
  /\ WF_vars(onDocumentLoadSuccess)
  /\ WF_vars(\E c \in ContentSizes : PageRenderSuccess(c))
  /\ WF_vars(ResizeObserved)

\* --- a draft document with a field for each of two signers: links are
\* --- issued from the viewer or the dashboard and the signers sign or reject.
\* --- A request that was sent is executed and its handler resumes.
ShareInit ==
  /\ signaturesTable = [id \in FieldIds |->
        IF id = 1 THEN PendingRow(Ann)
        ELSE IF id = 2 THEN PendingRow(Bob) ELSE NoRow]
  /\ signedDocuments = {}
  /\ now = 0
  /\ runs = [r \in RunIds |-> IdleRun]
  /\ opened = {}
  /\ tab = ClosedTab
  /\ requests = <<>>
  /\ documents = DocumentDraft
  /\ sessions = [s \in SessionIds |-> ClosedSession]
  /\ shares = NoShares

ShareNext ==
  \/ \E id \in FieldIds, status \in DocumentStatuses :
        generateSigningLink(id, status)
  \/ handleShare
  \/ Tick
  \/ \E s \in SessionIds, e \in Emails : openSigningPage(s, "owner", e)
  \/ \E s \in SessionIds, e \in Emails : openSignDocument(s, "owner", e)
  \/ \E s \in SessionIds :
        \/ \E id \in FieldIds : handleSignatureFieldClick(s, id)
        \/ drawStroke(s)
        \/ rerender(s)
        \/ \E t \in Times : handleComplete(s, t)
        \/ ApplySign(s, FALSE)
        \/ ResumeSign(s)
        \/ handleRejectDocument(s)

SpecShare == ShareInit /\ [][ShareNext]_vars

SpecShareFair ==
  /\ SpecShare
  /\ \A s \in SessionIds :
       /\ WF_vars(ApplySign(s, FALSE))
       /\ WF_vars(ResumeSign(s))


\* ------------------------------------------------- stamping claims
\* number a = n / d, cross-multiplied
IsQuotient(a, n, d) == a.num * d = n * a.den

\* the fields a stamping run must draw: signed, with an image, on a page of
\* the document
Stampable(f) ==
  /\ f.status = "signed"
  /\ f.signature_data # NULL
  /\ f.page_number \in 1 .. MaxPages

\* image img is field f drawn where the claim puts it on a W x H page:
\* x = x_position * W, y = H - y_position * H - height, size unchanged
PlacedAsClaimed(img, f) ==
  LET W == getWidth(img.page)
      H == getHeight(img.page)
  IN  /\ img.page = f.page_number - 1
      /\ IsQuotient(img.x, f.x_position.num * W, f.x_position.den)
      /\ IsQuotient(img.y, (H - f.height) * f.y_position.den - f.y_position.num * H,
                           f.y_position.den)
      /\ img.width = f.width
      /\ img.height = f.height

ImagesOf(r) == {runs[r].drawn[k] : k \in 1 .. Len(runs[r].drawn)}

\* every image of a run is a stampable field drawn as claimed, and a
\* finished stamping holds every stampable field drawn as claimed
PlacementFormula(r) ==
  /\ \A img \in ImagesOf(r) :
       \E id \in FieldIds :
         Stampable(signaturesTable[id]) /\ PlacedAsClaimed(img, signaturesTable[id])
  /\ runs[r].pdfBytes # NoBytes =>
       \A id \in FieldIds :
         Stampable(signaturesTable[id]) =>
           \E img \in ImagesOf(r) : PlacedAsClaimed(img, signaturesTable[id])

\* the claim's example: image img lies on a 612 x 792 page whose stampable
\* fields all sit at (0.1, 0.1) with height 50
IsLetterExample(img) ==
  /\ getWidth(img.page) = 612
  /\ getHeight(img.page) = 792
  /\ \E id \in FieldIds :
       Stampable(signaturesTable[id]) /\ signaturesTable[id].page_number = img.page + 1
  /\ \A id \in FieldIds :
       (Stampable(signaturesTable[id]) /\ signaturesTable[id].page_number = img.page + 1)
       => /\ IsQuotient(signaturesTable[id].x_position, 1, 10)
          /\ IsQuotient(signaturesTable[id].y_position, 1, 10)
          /\ signaturesTable[id].height = 50

\* C1 as stated: every stamped field is drawn with its bottom-left corner at
\* x = x_position * W, y = H - y_position * H - height and its stored width
\* and height, and the example field is drawn at x = 61.2, y = 663.2.
C1_AsStated ==
  \A r \in RunIds :
    /\ PlacementFormula(r)
    /\ \A img \in ImagesOf(r) :
         IsLetterExample(img) =>
           IsQuotient(img.x, 612, 10) /\ IsQuotient(img.y, 6632, 10)

\* C1 amended: the same placement formula; the example field is drawn at
\* x = 61.2, y = 792 - 79.2 - 50 = 662.8.
C1_StampingPlacement ==
  \A r \in RunIds :
    /\ PlacementFormula(r)
    /\ \A img \in ImagesOf(r) :
         IsLetterExample(img) =>
           IsQuotient(img.x, 612, 10) /\ IsQuotient(img.y, 6628, 10)

C1_Witness ==
  \E r \in RunIds :
    /\ runs[r].pdfBytes # NoBytes
    /\ \E img \in ImagesOf(r) :
         /\ IsLetterExample(img)
         /\ img.x = [num |-> 306, den |-> 5]
         /\ img.y = [num |-> 3314, den |-> 5]
         /\ img.width = 150 /\ img.height = 50

\* C2: a run draws images of signed fields with a non-null image only, and a
\* finished stamping holds exactly one image per signed field with an image
\* on a page of the document: no pending or rejected field is drawn.
C2_OnlySignedStamped ==
  \A r \in RunIds :
    /\ \A img \in ImagesOf(r) :
         \E id \in FieldIds :
           /\ signaturesTable[id].status = "signed"
           /\ signaturesTable[id].signature_data # NULL
           /\ signaturesTable[id].signature_data = img.image
           /\ signaturesTable[id].page_number = img.page + 1
    /\ runs[r].pdfBytes # NoBytes =>
         Len(runs[r].drawn) =
           Cardinality({id \in FieldIds : Stampable(signaturesTable[id])})

\* 3 fields, 2 of them signed, the third rejected with its image still
\* stored: 2 images
C2_Witness ==
  \E r \in RunIds :
    /\ runs[r].pdfBytes # NoBytes
    /\ Len(runs[r].drawn) = 2
    /\ Cardinality({id \in FieldIds : signaturesTable[id].status = "signed"}) = 2
    /\ \E id \in FieldIds :
         /\ signaturesTable[id].status = "rejected"
         /\ signaturesTable[id].signature_data = ImagePng

\* a queried row whose page_number resolves to no page
OffDocument(row) == (row.page_number - 1) \notin PageIndexes

RowsOf(r) == {runs[r].signatures[k] : k \in 1 .. Len(runs[r].signatures)}

\* C3: a signed field on a page the document does not have is never drawn
\* and never fails the run: a loop error means some row on a real page has
\* an image that cannot be embedded, and a finished stamping holds every row
\* with an image on a real page.
C3_OffPageFieldSkipped ==
  \A r \in RunIds :
    /\ \A img \in ImagesOf(r) : img.page \in PageIndexes
    /\ (runs[r].error \notin {NULL, "Document ID is required.", "docError",
                              "fileError", "sigError", "load failed", "uploadError"})
         => \E row \in RowsOf(r) :
              ~OffDocument(row) /\ row.signature_data = ImageCorrupt
    /\ (runs[r].pc \in {"stamped", "responded", "done"}
          /\ runs[r].error \in {NULL, "uploadError"}
          /\ \E row \in RowsOf(r) : row.status = "signed")
         => /\ runs[r].pdfBytes # NoBytes
            /\ \A row \in RowsOf(r) :
                 (~OffDocument(row) /\ row.signature_data # NULL)
                 => \E img \in ImagesOf(r) :
                      img.page = row.page_number - 1 /\ img.image = row.signature_data

C3_Witness ==
  \E r \in RunIds :
    /\ runs[r].response.status = 200
    /\ Len(runs[r].drawn) >= 1
    /\ \E row \in RowsOf(r) : OffDocument(row) /\ row.signature_data = ImagePng

\* a queried row whose image the loop tries to embed and cannot
Unembeddable(row) ==
  /\ ~OffDocument(row)
  /\ row.signature_data \notin {NULL, ImagePng}

\* C4: a run whose rows hold an image that cannot be embedded saves and
\* uploads nothing and answers with an error, whatever it drew before.
C4_EmbedFailureAborts ==
  \A r \in RunIds :
    (\E row \in RowsOf(r) : Unembeddable(row)) =>
      /\ runs[r].pdfBytes = NoBytes
      /\ \A o \in signedDocuments : o.by # r
      /\ runs[r].response.signedUrl = NoUrl
      /\ runs[r].pc \in {"responded", "done"} =>
           /\ runs[r].response.status = 500
           /\ runs[r].error # NULL

C4_Witness ==
  \E r \in RunIds :
    /\ runs[r].error = "embedPng failed"
    /\ Len(runs[r].drawn) >= 1
    /\ runs[r].pc = "done"

\* C5: a run that failed at any step answers without a signedUrl, and a
\* caller opens a window only for a 200 response of its own run that
\* carries a signedUrl and no error.
C5_NoLinkOnFailure ==
  /\ \A r \in RunIds :
       runs[r].error # NULL =>
         /\ runs[r].response.status = 500
         /\ runs[r].response.signedUrl = NoUrl
         /\ \A w \in opened : w.run # r
  /\ \A w \in opened :
       /\ w.url # NoUrl
       /\ runs[w.run].caller = w.caller
       /\ runs[w.run].response.status = 200
       /\ runs[w.run].response.error = NULL
       /\ runs[w.run].response.signedUrl = w.url
       /\ \E o \in signedDocuments : o.name = w.url

C5_Witness ==
  \E r \in RunIds :
    /\ runs[r].pc = "done"
    /\ runs[r].error = "uploadError"
    /\ Len(runs[r].drawn) >= 1
    /\ opened = {}

\* ------------------------------------------------- positions on the page
\* the field was last moved while the content had a positive size
MovedAtPositiveSize(sig) == sig.captured.width > 0 /\ sig.captured.height > 0

\* the pixel handed to the normalisation lies inside the content it was
\* divided by
InsideContent(sig) ==
  /\ sig.captured.x <= sig.captured.width
  /\ sig.captured.y <= sig.captured.height

\* the container size in use is the content size of the move
AtCapturedSize(t, sig) ==
  /\ t.containerSize.width = sig.captured.width
  /\ t.containerSize.height = sig.captured.height

\* C6: round trip. A field moved to a pixel inside the page content, at a
\* positive content size, is displayed (stored fraction times measured
\* container size) at that content-relative pixel as long as the measured size
\* is the size of the move, whatever the scroll offset of the move was.
C6_RoundTrip ==
  \A id \in FieldIds :
    (/\ overlayRendered(tab, id)
     /\ MovedAtPositiveSize(tab.signatures[id])
     /\ InsideContent(tab.signatures[id])
     /\ AtCapturedSize(tab, tab.signatures[id]))
    => overlayPosition(tab, id) =
         [x |-> Whole(tab.signatures[id].captured.x),
          y |-> Whole(tab.signatures[id].captured.y)]

\* a field dropped at viewport pixel (100, 150) of a 400 x 600 content that
\* was scrolled by (100, 150) is on display at the same measured size
C6_Witness ==
  \E id \in FieldIds :
    /\ overlayRendered(tab, id)
    /\ tab.signatures[id].captured = [x |-> 200, y |-> 300, width |-> 400, height |-> 600]
    /\ AtCapturedSize(tab, tab.signatures[id])

C8_ZeroSizeMoveRejected ==
  /\ \A i \in 1 .. Len(requests) :
        requests[i].captured.width > 0 /\ requests[i].captured.height > 0
  /\ \A id \in FieldIds :
        /\ signaturesTable[id] # NoRow =>
             IsFinite(signaturesTable[id].x_position) /\ IsFinite(signaturesTable[id].y_position)
        /\ tab.signatures[id] # NoRow =>
             IsFinite(tab.signatures[id].x_position) /\ IsFinite(tab.signatures[id].y_position)

InUnitInterval(a) == IsFinite(a) /\ Leq(Whole(0), a) /\ Leq(a, Whole(1))

\* C9: after any sequence of add-signer and move operations every stored
\* x_position and y_position lies in [0, 1]; a drag that leaves the content
\* rectangle is clamped into it.
C9_StoredFractionsInUnitInterval ==
  \A id \in FieldIds :
    signaturesTable[id] # NoRow =>
      /\ InUnitInterval(signaturesTable[id].x_position)
      /\ InUnitInterval(signaturesTable[id].y_position)

\* C10: in the owner's viewer and on the signer's page no overlay is rendered
\* while the container size in use has a zero width or height, or was measured
\* under another page or zoom than the current one.
C10_NoOverlayWithoutCurrentMeasurement ==
  \A id \in FieldIds :
    overlayRendered(tab, id) =>
      /\ tab.containerSize.width > 0
      /\ tab.containerSize.height > 0
      /\ tab.containerSize.page = tab.currentPage
      /\ tab.containerSize.zoom = tab.zoom

\* ------------------------------------------------- the life of a field
\* C11: the status of a field only ever changes pending -> signed or
\* pending -> rejected; a signed or rejected field keeps its status whatever
\* any session does.
C11_StatusTransitions ==
  [][\A id \in FieldIds :
       (signaturesTable[id] # NoRow /\ signaturesTable'[id] # NoRow
        /\ signaturesTable'[id].status # signaturesTable[id].status)
       => /\ signaturesTable[id].status = "pending"
          /\ signaturesTable'[id].status \in {"signed", "rejected"}]_vars

\* C12: in the store a field carries a signature image only if its status is
\* signed; no pending or rejected field has signature_data.
C12_ImageOnlyWhenSigned ==
  \A id \in FieldIds :
    (signaturesTable[id] # NoRow /\ signaturesTable[id].signature_data # NULL)
    => signaturesTable[id].status = "signed"

\* C13: signed_at of a field is written once, at its pending -> signed
\* transition, and never overwritten, also when two sessions complete a
\* signature for the same field.
C13_SignedAtWrittenOnce ==
  [][\A id \in FieldIds :
       (signaturesTable[id] # NoRow /\ signaturesTable'[id] # NoRow
        /\ signaturesTable'[id].signed_at # signaturesTable[id].signed_at)
       => /\ signaturesTable[id].signed_at = 0
          /\ signaturesTable[id].status = "pending"
          /\ signaturesTable'[id].status = "signed"]_vars

\* C14: x_position and y_position of a field are changed by a drag only while
\* the field is pending; no drag in the owner's viewer changes the stored
\* position of a field that is signed or rejected.
C14_PositionFixedOnceSettled ==
  [][\A id \in FieldIds :
       (signaturesTable[id] # NoRow /\ signaturesTable'[id] # NoRow
        /\ signaturesTable[id].status # "pending")
       => /\ signaturesTable'[id].x_position = signaturesTable[id].x_position
          /\ signaturesTable'[id].y_position = signaturesTable[id].y_position]_vars

C19_OneUpdateInFlight ==
  \A i, j \in 1 .. Len(requests) :
    i # j => requests[i].id # requests[j].id

MissingSignerInfo(d) == Trim(d.signerName) = "" \/ Trim(d.signerEmail) = ""

C18_CancelLeavesNoTrace ==
  [][\A s \in SessionIds :
       (sessions[s].dialog.open /\ ~sessions'[s].dialog.open
        /\ sessions[s].update.state = "none")
       => /\ signaturesTable' = signaturesTable
          /\ sessions'[s].signatures = sessions[s].signatures]_vars

\* a capture was cancelled: the dialog is closed and the field is pending,
\* with no image and no signed_at, in the store and in the local list
C18_Witness ==
  \E s \in SessionIds :
    /\ sessions[s].lastComplete.result = "cancelled"
    /\ ~sessions[s].dialog.open
    /\ sessions[s].signatures[1] = signaturesTable[1]
    /\ signaturesTable[1].status = "pending"
    /\ signaturesTable[1].signature_data = NULL
    /\ signaturesTable[1].signed_at = 0

\* ------------------------------------------------- stamping beside signing
\* C20: a stamping run that overlaps a signer's completion sees each field
\* either signed with its whole image or not at all. Every row the run's query
\* returned is signed and carries the image the signer's update wrote; every
\* image the run draws is the image of a row it queried; a run that produced
\* bytes has drawn one image for each row it queried.
C20_SignedSeenWithImageOrNotAtAll ==
  \A r \in RunIds :
    /\ \A k \in 1 .. Len(runs[r].signatures) :
         /\ runs[r].signatures[k].status = "signed"
         /\ runs[r].signatures[k].signature_data = ImagePng
    /\ \A k \in 1 .. Len(runs[r].drawn) :
         \E j \in 1 .. Len(runs[r].signatures) :
           runs[r].drawn[k].image = runs[r].signatures[j].signature_data
    /\ runs[r].pdfBytes # NoBytes =>
         Len(runs[r].drawn) = Len(runs[r].signatures)

\* the run queried between two completions of the signer: it stamped the
\* field that was signed before its query and missed the one signed after
C20_Witness ==
  \E r \in RunIds :
    /\ runs[r].pc = "stamped"
    /\ Len(runs[r].drawn) = 1
    /\ runs[r].drawn[1].image = ImagePng
    /\ Cardinality({id \in FieldIds : signaturesTable[id].status = "signed"}) = 2

\* ------------------------------------------------- concurrent stamping runs
\* C21: each stamping run has its own output object: the object behind the
\* URL a run returned holds the bytes that run produced, whatever other runs
\* upload.
C21_OwnOutputPerRun ==
  \A r \in DOMAIN runs :
    runs[r].response.status = 200 =>
      \E o \in signedDocuments :
        /\ o.name = runs[r].response.signedUrl
        /\ o.bytes = runs[r].pdfBytes

\* ------------------------------------------------- stamping and completion
\* C22: stamping is gated on completion: no run produces stamped bytes, and
\* no stamped object is uploaded, while a field of the document is pending.
C22_NoStampWhilePending ==
  [][((\E r \in DOMAIN runs : runs'[r].pdfBytes # runs[r].pdfBytes)
      \/ signedDocuments' # signedDocuments)
     => \A id \in FieldIds : signaturesTable[id].status # "pending"]_vars

\* the source document as PDFDocument.load reads it: its pages, nothing drawn
SourceContent == [pages |-> MaxPages, images |-> <<>>]

NoSignedField == \A id \in FieldIds : signaturesTable[id].status # "signed"

\* C23: a run on a document with no signed field draws nothing: the bytes it
\* saves and the object it uploads have the pages and the content of the
\* source document.
C23_NothingSignedNothingDrawn ==
  NoSignedField =>
    /\ \A r \in DOMAIN runs :
         /\ runs[r].drawn = <<>>
         /\ runs[r].pdfBytes # NoBytes => runs[r].pdfBytes = SourceContent
    /\ \A o \in signedDocuments : o.bytes = SourceContent

\* a run returned a URL for a document with no signed field, one of whose
\* rejected fields still stores an image
C23_Witness ==
  /\ NoSignedField
  /\ \E id \in FieldIds :
       /\ signaturesTable[id].status = "rejected"
       /\ signaturesTable[id].signature_data = ImagePng
  /\ \E r \in DOMAIN runs :
       /\ runs[r].response.status = 200
       /\ \E o \in signedDocuments : o.name = runs[r].response.signedUrl

\* ------------------------------------------------- page numbers
\* C24: every field in the store is on a page of its document, 1 <=
\* page_number <= totalPages, and the viewer's current page, which add-signer
\* records, stays at 1 before the PDF has loaded and in [1, numPages] after.
C24_PageNumberInDocument ==
  /\ \A id \in FieldIds :
       signaturesTable[id] # NoRow =>
         /\ 1 <= signaturesTable[id].page_number
         /\ signaturesTable[id].page_number <= MaxPages
  /\ tab.view # "none" =>
       /\ 1 <= tab.currentPage
       /\ tab.numPages = 0 => tab.currentPage = 1
       /\ tab.numPages > 0 => tab.currentPage <= tab.numPages

\* a field was added on the last page and the viewer went back to page 1
C24_Witness ==
  /\ tab.view = "DocumentViewer"
  /\ tab.currentPage = 1
  /\ \E id \in FieldIds :
       /\ signaturesTable[id] # NoRow
       /\ signaturesTable[id].page_number = MaxPages

\* ------------------------------------------------- stamping failures
\* C25: a run that failed to parse the source PDF or to embed a signature
\* image answers with an error payload that carries an error kind and the
\* message, never a success, and the caller is shown that message.
C25_FailureCarriesKindAndMessage ==
  \A r \in DOMAIN runs :
    (runs[r].pc \in {"responded", "done"}
     /\ runs[r].error \in {"load failed", "embedPng failed"})
    => /\ runs[r].response.status = 500
       /\ runs[r].response.error = runs[r].error
       /\ "errorKind" \in payloadKeys(runs[r].response)
       /\ runs[r].pc = "done" =>
            toastDescription(runs[r].response) = runs[r].error

\* ------------------------------------------------- measurement
\* an overlay is displayed with a container size that is not the current
\* scrollWidth / scrollHeight of the container
Lagging ==
  \E id \in FieldIds :
    /\ overlayRendered(tab, id)
    /\ \/ tab.containerSize.width # tab.content.width
       \/ tab.containerSize.height # tab.content.height

\* C26: the container size used for display does not lag behind the content
\* size: whenever a zoom change, a page change, a change of the field list or
\* a layout change leaves an overlay displayed with an older size, a new
\* measurement follows (or the overlay is taken down).
C26_MeasurementFollowsChange == Lagging ~> ~Lagging

\* ------------------------------------------------- completion of a document
\* C27: a step that sets the document's status to completed is taken only
\* while every field of the document is signed in the store.
C27_CompletedOnlyWhenAllSigned ==
  [][(documents' = "completed" /\ documents # "completed")
     => \A id \in FieldIds :
          signaturesTable[id] # NoRow => signaturesTable[id].status = "signed"]_vars

\* every field of the document is signed in the store
AllFieldsSigned ==
  /\ \E id \in FieldIds : signaturesTable[id] # NoRow
  /\ \A id \in FieldIds :
       signaturesTable[id] # NoRow => signaturesTable[id].status = "signed"

\* C28: once every field of the document has been signed through signing
\* links, the document's status eventually becomes completed, whether the
\* links came from the viewer or from the dashboard and however the signers'
\* sessions interleave.
C28_AllSignedLeadsToCompleted == AllFieldsSigned ~> (documents = "completed")

\* ------------------------------------------------- signing links
ShareUsable(signer_email) ==
  /\ shares[signer_email].exists
  /\ ~expired(shares[signer_email], now)
  /\ shares[signer_email].used_at = 0

SignerDone(signer_email) ==
  \/ \A id \in FieldIds :
       (signaturesTable'[id] # NoRow /\ signaturesTable'[id].signer_email = signer_email)
       => signaturesTable'[id].status = "signed"
  \/ \E id \in FieldIds :
       /\ signaturesTable'[id] # NoRow
       /\ signaturesTable'[id].signer_email = signer_email
       /\ signaturesTable'[id].status = "rejected"

\* C30: a link whose share is expired or used gives no access: a session
\* that opens it loads no field; and a share is marked used only when all
\* fields of its signer are signed or the signer rejects.
C30_ExpiredOrUsedLinkLoadsNothing ==
  [][/\ \A s \in SessionIds :
          (sessions[s].view = "none" /\ sessions'[s].view # "none"
           /\ sessions'[s].signatures # NoSignatures)
          => ShareUsable(sessions'[s].signer_email)
     /\ \A e \in Emails :
          (shares[e].used_at = 0 /\ shares'[e].used_at # 0) => SignerDone(e)]_vars

\* ------------------------------------------------- who signs what
\* C29: on the signing page a field becomes signed only if it was pending and
\* is assigned to the signer of the link in use; the capture dialog is open
\* only on a field of that signer.
C29_SignedOnlyFromPendingBySigner ==
  [][/\ \A id \in FieldIds :
          (signaturesTable[id] # NoRow /\ signaturesTable[id].status # "signed"
           /\ signaturesTable'[id].status = "signed")
          => /\ signaturesTable[id].status = "pending"
             /\ \E s \in SessionIds :
                  /\ sessions[s].view = "SigningPage"
                  /\ sessions[s].update.id = id
                  /\ sessions[s].signer_email = signaturesTable[id].signer_email
     /\ \A s \in SessionIds :
          (sessions'[s].view = "SigningPage" /\ sessions'[s].dialog.open)
          => signaturesTable[sessions'[s].activeSignature].signer_email
               = sessions'[s].signer_email]_vars

====
